---- MODULE Spec2Model ----
(***************************************************************************)
(* Model of the chemical-formula clipboard utility.                        *)
(*                                                                         *)
(* A JavaScript string is a sequence of characters; a character is a       *)
(* one-character TLA+ string.  String indexes are 0-based as in the        *)
(* source: At(s, i) is s[i].  A read outside a string is an evaluation     *)
(* error of the model, as formula[i].match(...) on undefined is a          *)
(* TypeError of the program.                                               *)
(***************************************************************************)
EXTENDS Integers, Sequences, FiniteSets, Bags, TLC

VARIABLES input, results, resultsReady, formatted, formattedReady

\* main.ts: the page
VARIABLES
    textValue,        \* textInput.value
    focused,          \* textInput has the focus
    history,          \* let history: HistoryEntry[]
    pendingFormulas,  \* let pendingFormulas: string[]
    pendingOriginal,  \* let pendingOriginal: string
    modalShown,       \* disambiguationModal.classList.contains('show')
    modalOptions,     \* the options listed in disambiguationOptions
    feedback,         \* the type last given to showFeedback, "none" at load
    inflight,         \* navigator.clipboard.writeText promises not settled
    selections        \* copies started by digit keys in this showing of the modal

coreVars == <<input, results, resultsReady, formatted, formattedReady>>

uiVars ==
    <<textValue, focused, history, pendingFormulas, pendingOriginal,
      modalShown, modalOptions, feedback, inflight, selections>>

vars == <<coreVars, uiVars>>

----------------------------------------------------------------------------
(* Characters *)

LowerLetters == <<"a", "b", "c", "d", "e", "f", "g", "h", "i", "j", "k", "l", "m", "n", "o", "p", "q", "r", "s", "t", "u", "v", "w", "x", "y", "z">>

UpperLetters == <<"A", "B", "C", "D", "E", "F", "G", "H", "I", "J", "K", "L", "M", "N", "O", "P", "Q", "R", "S", "T", "U", "V", "W", "X", "Y", "Z">>

DigitChars == <<"0", "1", "2", "3", "4", "5", "6", "7", "8", "9">>

Range(s) == {s[i] : i \in DOMAIN s}

Digits == Range(DigitChars)

IndexOf(s, c) == CHOOSE i \in DOMAIN s : s[i] = c

Lower == Range(LowerLetters)

Upper == Range(UpperLetters)

\* the case mapping of the ASCII letters
UpperOf == [c \in Lower |-> UpperLetters[IndexOf(LowerLetters, c)]]

LowerOf == [c \in Upper |-> LowerLetters[IndexOf(UpperLetters, c)]]

\* String.prototype.toUpperCase on one character of the modelled alphabet:
\* ASCII letters, and the non-ASCII letter e-acute, which has a case mapping
\* but is outside [a-zA-Z].
charToUpperCase(c) ==
    IF c \in Lower THEN UpperOf[c]
    ELSE IF c = "é" THEN "É"
    ELSE c

charToLowerCase(c) ==
    IF c \in Upper THEN LowerOf[c]
    ELSE IF c = "É" THEN "é"
    ELSE c

toUpperCase(s) == [i \in 1..Len(s) |-> charToUpperCase(s[i])]

toLowerCase(s) == [i \in 1..Len(s) |-> charToLowerCase(s[i])]

\* formula[i], 0-based
At(s, i) == s[i + 1]

\* .match(/[a-zA-Z]/) on one character
IsAlpha(c) == c \in Lower \/ c \in Upper

\* .match(/[0-9]/) on one character
IsDigit(c) == c \in Digits

----------------------------------------------------------------------------
(* clipboard_util: element table and subscript map *)

ELEMENTS ==
    {
      <<"A", "c">>, <<"A", "g">>, <<"A", "l">>, <<"A", "m">>, <<"A", "r">>, <<"A", "s">>, <<"A", "t">>, <<"A", "u">>, <<"B">>, <<"B", "a">>, <<"B", "e">>, <<"B", "h">>, <<"B", "i">>,
      <<"B", "k">>, <<"B", "r">>, <<"C">>, <<"C", "a">>, <<"C", "d">>, <<"C", "e">>, <<"C", "f">>, <<"C", "l">>, <<"C", "m">>, <<"C", "n">>, <<"C", "o">>, <<"C", "r">>, <<"C", "s">>,
      <<"C", "u">>, <<"D", "b">>, <<"D", "s">>, <<"D", "y">>, <<"E", "r">>, <<"E", "s">>, <<"E", "u">>, <<"F">>, <<"F", "e">>, <<"F", "l">>, <<"F", "m">>, <<"F", "r">>, <<"G", "a">>,
      <<"G", "d">>, <<"G", "e">>, <<"H">>, <<"H", "e">>, <<"H", "f">>, <<"H", "g">>, <<"H", "o">>, <<"H", "s">>, <<"I">>, <<"I", "n">>, <<"I", "r">>, <<"K">>, <<"K", "r">>,
      <<"L", "a">>, <<"L", "i">>, <<"L", "r">>, <<"L", "u">>, <<"L", "v">>, <<"M", "d">>, <<"M", "g">>, <<"M", "n">>, <<"M", "o">>, <<"M", "t">>, <<"N">>, <<"N", "a">>, <<"N", "b">>,
      <<"N", "d">>, <<"N", "e">>, <<"N", "i">>, <<"N", "o">>, <<"N", "p">>, <<"O">>, <<"O", "s">>, <<"P">>, <<"P", "a">>, <<"P", "b">>, <<"P", "d">>, <<"P", "m">>, <<"P", "o">>,
      <<"P", "r">>, <<"P", "t">>, <<"P", "u">>, <<"R", "a">>, <<"R", "b">>, <<"R", "e">>, <<"R", "f">>, <<"R", "g">>, <<"R", "h">>, <<"R", "n">>, <<"R", "u">>, <<"S">>, <<"S", "b">>,
      <<"S", "c">>, <<"S", "e">>, <<"S", "g">>, <<"S", "i">>, <<"S", "m">>, <<"S", "n">>, <<"S", "r">>, <<"T", "a">>, <<"T", "b">>, <<"T", "c">>, <<"T", "e">>, <<"T", "h">>, <<"T", "i">>,
      <<"T", "l">>, <<"T", "m">>, <<"U">>, <<"V">>, <<"W">>, <<"X", "e">>, <<"Y">>, <<"Y", "b">>, <<"Z", "n">>, <<"Z", "r">>
    }

SUBSCRIPT_MAP ==
    ("0" :> "₀") @@ ("1" :> "₁") @@ ("2" :> "₂") @@ ("3" :> "₃") @@
    ("4" :> "₄") @@ ("5" :> "₅") @@ ("6" :> "₆") @@ ("7" :> "₇") @@
    ("8" :> "₈") @@ ("9" :> "₉")

\* numStr.split('').map((c) => SUBSCRIPT_MAP[c] || c).join('')
toSubscript(numStr) ==
    [i \in 1..Len(numStr) |->
        IF numStr[i] \in DOMAIN SUBSCRIPT_MAP THEN SUBSCRIPT_MAP[numStr[i]]
        ELSE numStr[i]]

\* formula.substring(from, to), 0-based, to exclusive
substring(s, from, to) == SubSeq(s, from + 1, to)

----------------------------------------------------------------------------
(* clipboard_util: getAllFormulas *)

\* twoLetter.charAt(0).toUpperCase() + twoLetter.charAt(1) (no lower-casing)
capitalizedKeepSecond(formula, index) ==
    <<charToUpperCase(At(formula, index)), At(formula, index + 1)>>

\* twoLetter.toUpperCase(): both letters upper-cased
capitalizedBothUpper(formula, index) ==
    <<charToUpperCase(At(formula, index)),
      charToUpperCase(At(formula, index + 1))>>

\* const twoLetter = formula.substring(index, index + 2);
\* const capitalized = twoLetter.charAt(0).toUpperCase() + twoLetter.charAt(1).toLowerCase();
capitalized(formula, index) ==
    LET twoLetter == substring(formula, index, index + 2)
    IN  <<charToUpperCase(twoLetter[1]), charToLowerCase(twoLetter[2])>>

\* the 2-letter test without the ELEMENTS.has(capitalized) check
twoLetterAnyPair(formula, index) ==
    /\ index + 1 < Len(formula)
    /\ IsAlpha(At(formula, index + 1))

\* index + 1 < formula.length && formula[index + 1].match(/[a-zA-Z]/)
\*   && ELEMENTS.has(capitalized)
twoLetterMatches(formula, index) ==
    /\ index + 1 < Len(formula)
    /\ IsAlpha(At(formula, index + 1))
    /\ capitalized(formula, index) \in ELEMENTS

\* formula[index] with no toUpperCase()
oneLetterAsTyped(formula, index) == <<At(formula, index)>>

\* const oneLetter = formula[index].toUpperCase();
oneLetter(formula, index) == <<charToUpperCase(At(formula, index))>>

\* an `if` in place of the `while`: at most one digit is collected
collectOneDigit(formula, digitIndex) ==
    IF digitIndex < Len(formula) /\ IsDigit(At(formula, digitIndex))
    THEN digitIndex + 1
    ELSE digitIndex

\* while (digitIndex < formula.length && formula[digitIndex].match(/[0-9]/))
\*   { num += formula[digitIndex]; digitIndex += 1; }
\* The value of digitIndex after the loop; num is
\* substring(formula, start, collectDigits(formula, start)).
RECURSIVE collectDigits(_, _)
collectDigits(formula, digitIndex) ==
    IF digitIndex < Len(formula) /\ IsDigit(At(formula, digitIndex))
    THEN collectDigits(formula, digitIndex + 1)
    ELSE digitIndex

\* the digits appended as collected, with no conversion
subscriptUnconverted(num) == num

\* const subscript = num ? toSubscript(num) : '';
subscript(num) == IF num # <<>> THEN toSubscript(num) ELSE <<>>

\* for (const rest of restResults) results.push(prefix + rest);
pushAll(prefix, restResults) ==
    [k \in 1..Len(restResults) |-> prefix \o restResults[k]]

\* return [];
endOfInputNoResult == <<>>

\* if (index >= formula.length) return [''];
endOfInput == << <<>> >>

\* the 1-letter results pushed before the 2-letter results
letterResultsOneFirst(twoResults, oneResults) == oneResults \o twoResults

\* the 1-letter branch taken only when the 2-letter branch pushed nothing
letterResultsElse(twoResults, oneResults) ==
    IF twoResults # <<>> THEN twoResults ELSE oneResults

\* results after the alphabetic branch: the pushes of the 2-letter block
\* (lines 79-81) come before the pushes of the 1-letter block (lines 99-101)
letterResults(twoResults, oneResults) == twoResults \o oneResults

RECURSIVE getAllFormulas(_, _)
getAllFormulas(formula, index) ==
    IF index >= Len(formula) THEN endOfInput
    ELSE IF IsAlpha(At(formula, index)) THEN
        LET twoResults ==
                IF twoLetterMatches(formula, index) THEN
                    LET digitIndex == collectDigits(formula, index + 2)
                        num == substring(formula, index + 2, digitIndex)
                    IN  pushAll(capitalized(formula, index) \o subscript(num),
                                getAllFormulas(formula, digitIndex))
                ELSE <<>>
            oneResults ==
                LET digitIndex == collectDigits(formula, index + 1)
                    num == substring(formula, index + 1, digitIndex)
                IN  pushAll(oneLetter(formula, index) \o subscript(num),
                            getAllFormulas(formula, digitIndex))
        IN  letterResults(twoResults, oneResults)
    ELSE
        pushAll(<<At(formula, index)>>, getAllFormulas(formula, index + 1))

----------------------------------------------------------------------------
(* clipboard_util: formatFormula *)

\* the single letter taken even when the 2-letter element is valid
formatTakesTwoNever(formula, i) == FALSE

\* i + 1 < formula.length && formula[i + 1].match(/[a-zA-Z]/)
\*   && ELEMENTS.has(capitalized)
formatTakesTwo(formula, i) ==
    /\ i + 1 < Len(formula)
    /\ IsAlpha(At(formula, i + 1))
    /\ capitalized(formula, i) \in ELEMENTS

\* The while loop of formatFormula from position i with the pieces pushed
\* so far joined in result.
RECURSIVE formatLoop(_, _, _)
formatLoop(formula, i, result) ==
    IF ~(i < Len(formula)) THEN result
    ELSE IF IsAlpha(At(formula, i)) THEN
        LET two == formatTakesTwo(formula, i)
            elem == IF two THEN capitalized(formula, i)
                    ELSE <<charToUpperCase(At(formula, i))>>
            afterElem == IF two THEN i + 2 ELSE i + 1
            afterNum == collectDigits(formula, afterElem)
            num == substring(formula, afterElem, afterNum)
        IN  formatLoop(formula, afterNum,
                       result \o elem \o
                       (IF num # <<>> THEN toSubscript(num) ELSE <<>>))
    ELSE formatLoop(formula, i + 1, result \o <<At(formula, i)>>)

formatFormula(formula) == formatLoop(formula, 0, <<>>)

----------------------------------------------------------------------------
(* Inputs *)

\* longest input over Alphabet
MaxLen == 3

\* longest all-letter input over RunLetters
MaxRun == 5

\* longest digit run over RunDigits after a 2-letter symbol
MaxDigits == 3

\* letters (As, Co, Cs, Sc, Os, Ca, Ac are symbols; A and X are not), a
\* digit, punctuation, a subscript glyph and a letter outside [a-zA-Z]
Alphabet == {"a", "c", "o", "s", "x", "C", "O", "2", "-", "₂", "é"}

RunLetters == {"c", "o", "s"}

RunDigits == {"0", "1", "9"}

StringsUpTo(chars, n) == UNION {[1..k -> chars] : k \in 0..n}

\* lowercase(E) + D for every 2-letter symbol E and digit run D: every
\* single digit, and the runs over RunDigits
ElementInputs ==
    {toLowerCase(E) \o D :
        E \in {e \in ELEMENTS : Len(e) = 2},
        D \in StringsUpTo(Digits, 1)
                \cup StringsUpTo(RunDigits, MaxDigits)}

\* every single ASCII letter
SingleLetters == {<<c>> : c \in Range(LowerLetters) \cup Range(UpperLetters)}

\* inputs of clipboard_util.test.ts
TestInputs ==
    { <<"h", "2", "o">>, <<"H", "2", "O">>, <<"h", "2", "s", "o", "4">>,
      <<"H", "2", "S", "o", "4">>, <<"a", "s", "o", "3">>,
      <<"a", "s", "1", "2", "3">>, <<"n", "a", "o", "h">>,
      <<"c", "a", "c", "o", "3">>, <<"h", "2", "o", "3">>,
      <<"c", "h", "o", "n">>, <<"1", "2", "3">>, <<"A", "S">> }

Inputs ==
    StringsUpTo(Alphabet, MaxLen) \cup StringsUpTo(RunLetters, MaxRun)
        \cup ElementInputs \cup SingleLetters \cup TestInputs

----------------------------------------------------------------------------
(* State machine: one input string, to which the two exported functions   *)
(* are applied.                                                            *)

\* the page as loaded: main.ts lines 20-22, the input has autofocus
InitPage ==
    /\ textValue = <<>>
    /\ focused = TRUE
    /\ history = <<>>
    /\ pendingFormulas = <<>>
    /\ pendingOriginal = <<>>
    /\ modalShown = FALSE
    /\ modalOptions = <<>>
    /\ feedback = "none"
    /\ inflight = EmptyBag
    /\ selections = 0

Init ==
    /\ input \in Inputs
    /\ results = <<>>
    /\ resultsReady = FALSE
    /\ formatted = <<>>
    /\ formattedReady = FALSE
    /\ InitPage

\* results = getAllFormulas(input)
CallGetAllFormulas ==
    /\ ~resultsReady
    /\ results' = getAllFormulas(input, 0)
    /\ resultsReady' = TRUE
    /\ UNCHANGED <<input, formatted, formattedReady>>
    /\ UNCHANGED uiVars

\* formatted = formatFormula(input)
CallFormatFormula ==
    /\ ~formattedReady
    /\ formatted' = formatFormula(input)
    /\ formattedReady' = TRUE
    /\ UNCHANGED <<input, results, resultsReady>>
    /\ UNCHANGED uiVars

Next == CallGetAllFormulas \/ CallFormatFormula

Spec == Init /\ [][Next]_vars

TypeOK ==
    /\ resultsReady \in BOOLEAN
    /\ formattedReady \in BOOLEAN
    /\ resultsReady => Len(results) \in Nat

----------------------------------------------------------------------------
(* main.ts: the page.  A handler runs to its first await in one step; a   *)
(* clipboard write settles in a later step, in any order, and the code    *)
(* after the await runs in that step.  The focus changes only by the      *)
(* program's focus() and blur(); the editing of the input's text, the     *)
(* default action of the keys typed into it, is the step TypeText.  Of    *)
(* showFeedback the type is kept; its timer, which only removes the       *)
(* class 'show', is left out.                                             *)

\* history.length > 5
HistoryCap == 5

\* most clipboard writes that have not settled
MaxInFlight == 2

\* what the user types: one candidate (H₂O, to be trimmed), two candidates
\* (Co, CO); the empty input is the input as loaded or cleared
TextValues == { <<" ", "h", "2", "o">>, <<"c", "o">> }

\* event.key of the keypress events the document handler is given
Keys == {"0", "2", "3", "x"}

IsSpace(c) == c = " "

\* String.prototype.trim
RECURSIVE trim(_)
trim(s) ==
    IF s = <<>> THEN s
    ELSE IF IsSpace(Head(s)) THEN trim(Tail(s))
    ELSE IF IsSpace(s[Len(s)]) THEN trim(SubSeq(s, 1, Len(s) - 1))
    ELSE s

\* parseInt(e.key) of a key: <<n>> for a digit key, <<>> for NaN
parseInt(key) ==
    IF key \in Digits THEN <<IndexOf(DigitChars, key) - 1>> ELSE <<>>

\* num >= 1 && num <= 9 && num <= pendingFormulas.length
IsSelection(num, formulas) ==
    /\ num # <<>>
    /\ num[1] >= 1
    /\ num[1] <= 9
    /\ num[1] <= Len(formulas)

\* showFeedback(message, type)
showFeedback(type) == feedback' = type

\* history.shift() in place of history.pop(): the newest entry is dropped
addToHistoryShift(h, original, formula) ==
    LET unshifted == <<[original |-> original, formatted |-> formula]>> \o h
    IN  IF Len(unshifted) > HistoryCap THEN Tail(unshifted) ELSE unshifted

\* history.unshift({ original, formatted: formula });
\* if (history.length > 5) history.pop();
addToHistory(h, original, formula) ==
    LET unshifted == <<[original |-> original, formatted |-> formula]>> \o h
    IN  IF Len(unshifted) > HistoryCap
        THEN SubSeq(unshifted, 1, Len(unshifted) - 1)
        ELSE unshifted

\* a call of navigator.clipboard.writeText(formula) and the caller that
\* awaits it
Write(original, formula, caller) ==
    [original |-> original, formula |-> formula, caller |-> caller]

\* await navigator.clipboard.writeText(formula)
writeText(original, formula, caller) ==
    /\ BagCardinality(inflight) < MaxInFlight
    /\ inflight' = inflight (+) SetToBag({Write(original, formula, caller)})

\* the user edits the text of the focused input
TypeText(t) ==
    /\ focused
    /\ textValue # t
    /\ textValue' = t
    /\ UNCHANGED <<focused, history, pendingFormulas, pendingOriginal,
                   modalShown, modalOptions, feedback, inflight, selections>>

\* if (formulas.length >= 1) showDisambiguationModal(formulas)
dispatchFormulasAlwaysModal(originalText, formulas) ==
    IF Len(formulas) >= 1 THEN
        /\ modalOptions' = formulas
        /\ modalShown' = TRUE
        /\ focused' = FALSE
        /\ selections' = 0
        /\ UNCHANGED inflight
    ELSE UNCHANGED <<modalShown, modalOptions, focused, inflight, selections>>

\* if (formulas.length === 1) ... else if (formulas.length > 1) ...
\* (lines 37-45), up to the await in copyFormula
dispatchFormulas(originalText, formulas) ==
    IF Len(formulas) = 1 THEN
        /\ writeText(originalText, formulas[1], "enter")
        /\ UNCHANGED <<modalShown, modalOptions, focused, selections>>
    ELSE IF Len(formulas) > 1 THEN
        \* showDisambiguationModal(formulas)
        /\ modalOptions' = formulas
        /\ modalShown' = TRUE
        /\ focused' = FALSE
        /\ selections' = 0
        /\ UNCHANGED inflight
    ELSE UNCHANGED <<modalShown, modalOptions, focused, inflight, selections>>

\* textInput keypress, e.key === 'Enter' (lines 23-47), up to the await in
\* copyFormula; the document keypress handler then sees the same event and
\* does nothing, parseInt('Enter') being NaN
PressEnter ==
    /\ focused
    /\ LET originalText == trim(textValue)
           formulas == getAllFormulas(originalText, 0)
       IN  IF originalText = <<>> THEN
               /\ showFeedback("error")
               /\ UNCHANGED <<pendingFormulas, pendingOriginal, modalShown,
                              modalOptions, focused, inflight, selections>>
           ELSE
               /\ pendingFormulas' = formulas
               /\ pendingOriginal' = originalText
               /\ dispatchFormulas(originalText, formulas)
               /\ UNCHANGED feedback
    /\ UNCHANGED <<textValue, history>>

\* document keypress (lines 103-117), up to the await in copyFormula
KeyPress(key) ==
    /\ IF modalShown /\ IsSelection(parseInt(key), pendingFormulas) THEN
           /\ writeText(pendingOriginal, pendingFormulas[parseInt(key)[1]],
                        "select")
           /\ selections' = selections + 1
       ELSE UNCHANGED <<inflight, selections>>
    /\ UNCHANGED <<textValue, focused, history, pendingFormulas,
                   pendingOriginal, modalShown, modalOptions, feedback>>

\* hideDisambiguationModal()
hideDisambiguationModal ==
    /\ modalShown' = FALSE
    /\ focused' = TRUE
    /\ selections' = 0

\* Escape without textInput.value = ''
PressEscapeKeepsText ==
    /\ IF modalShown THEN hideDisambiguationModal
       ELSE UNCHANGED <<modalShown, focused, selections>>
    /\ UNCHANGED <<textValue, history, pendingFormulas, pendingOriginal,
                   modalOptions, feedback, inflight>>

\* document keydown, e.key === 'Escape' (lines 120-126)
PressEscape ==
    /\ IF modalShown THEN
           /\ hideDisambiguationModal
           /\ textValue' = <<>>
       ELSE UNCHANGED <<modalShown, focused, textValue, selections>>
    /\ UNCHANGED <<history, pendingFormulas, pendingOriginal, modalOptions,
                   feedback, inflight>>

\* click on the copy button of history entry index (lines 173-183), up to
\* the await
ClickCopyBtn(index) ==
    /\ index \in 1..Len(history)
    /\ writeText(history[index].original, history[index].formatted, "history")
    /\ UNCHANGED <<textValue, focused, history, pendingFormulas,
                   pendingOriginal, modalShown, modalOptions, feedback,
                   selections>>

\* the code after `await copyFormula(...)` in the two keypress handlers
\* (lines 40-41, 113-115); nothing follows the await of the copy button
afterCopy(caller) ==
    IF caller = "enter" THEN
        /\ textValue' = <<>>
        /\ focused' = TRUE
        /\ UNCHANGED <<modalShown, selections>>
    ELSE IF caller = "select" THEN
        /\ hideDisambiguationModal
        /\ textValue' = <<>>
    ELSE UNCHANGED <<textValue, focused, modalShown, selections>>

\* the history update left out of copyFormula
historyAfterNoUpdate(w) == history

\* the history after a write of copyFormula resolved (lines 90-94); the
\* copy button's handler does not touch it
historyAfter(w) ==
    IF w.caller = "history" THEN history
    ELSE addToHistory(history, w.original, w.formula)

\* writeText resolves: copyFormula lines 88-95, or the copy button's line
\* 178, then the caller's code after the await
WriteResolves(w) ==
    /\ BagIn(w, inflight)
    /\ inflight' = inflight (-) SetToBag({w})
    /\ showFeedback("success")
    /\ history' = historyAfter(w)
    /\ afterCopy(w.caller)
    /\ UNCHANGED <<pendingFormulas, pendingOriginal, modalOptions>>

\* writeText rejects: the catch blocks (lines 96-99, 179-182), then the
\* caller's code after the await
WriteRejects(w) ==
    /\ BagIn(w, inflight)
    /\ inflight' = inflight (-) SetToBag({w})
    /\ showFeedback("error")
    /\ afterCopy(w.caller)
    /\ UNCHANGED <<history, pendingFormulas, pendingOriginal, modalOptions>>

InitUI ==
    /\ input = <<>>
    /\ results = <<>>
    /\ resultsReady = FALSE
    /\ formatted = <<>>
    /\ formattedReady = FALSE
    /\ InitPage

NextUI ==
    \/ (\E t \in TextValues : TypeText(t)) /\ UNCHANGED coreVars
    \/ PressEnter /\ UNCHANGED coreVars
    \/ (\E key \in Keys : KeyPress(key)) /\ UNCHANGED coreVars
    \/ PressEscape /\ UNCHANGED coreVars
    \/ (\E index \in 1..HistoryCap : ClickCopyBtn(index)) /\ UNCHANGED coreVars
    \/ (\E w \in BagToSet(inflight) : WriteResolves(w)) /\ UNCHANGED coreVars
    \/ (\E w \in BagToSet(inflight) : WriteRejects(w)) /\ UNCHANGED coreVars

SpecUI == InitUI /\ [][NextUI]_vars

----------------------------------------------------------------------------
(* Properties *)

Candidates == Range(results)

\* C1: for every input string getAllFormulas returns a non-empty list (no
\* read outside the string is made, or the evaluation would fail), and for
\* the empty string it returns exactly [""].
C1_NonEmpty ==
    resultsReady =>
        /\ Len(results) >= 1
        /\ input = <<>> => results = << <<>> >>

C1_Witness == resultsReady /\ input = <<>> /\ results = << <<>> >>

\* The element tokens of a candidate: a token starts at each uppercase
\* ASCII letter and takes the next character when it is a lowercase letter.
ElementTokens(r) ==
    {IF i < Len(r) /\ r[i + 1] \in Lower THEN <<r[i], r[i + 1]>> ELSE <<r[i]>> :
        i \in {j \in 1..Len(r) : r[j] \in Upper}}

\* C2: in every candidate returned by getAllFormulas, every element token
\* (1-letter or 2-letter) is a member of the element table; getAllFormulas('x')
\* does not contain 'X' and no candidate of getAllFormulas('aso3') starts
\* with 'AS'.
C2_OnlyTableSymbols ==
    resultsReady =>
        \A r \in Candidates : ElementTokens(r) \subseteq ELEMENTS

IsSymbolAt(s, p) ==
    /\ p + 1 <= Len(s)
    /\ IsAlpha(s[p])
    /\ IsAlpha(s[p + 1])
    /\ <<charToUpperCase(s[p]), charToLowerCase(s[p + 1])>> \in ELEMENTS

TwoLetterSymbols == {e \in ELEMENTS : Len(e) = 2}

IsSymbolWithDigits(s) ==
    /\ Len(s) >= 2
    /\ s[1] \in Lower
    /\ s[2] \in Lower
    /\ <<charToUpperCase(s[1]), s[2]>> \in TwoLetterSymbols
    /\ \A i \in 3..Len(s) : IsDigit(s[i])

\* C5: for every 2-letter symbol E and every run of digits D (empty or not),
\* getAllFormulas(lowercase(E) + D) contains E followed by the subscript
\* glyph of every digit of D.
C5_SymbolWithSubscript ==
    (resultsReady /\ IsSymbolWithDigits(input)) =>
        (<<charToUpperCase(input[1]), input[2]>> \o
            [i \in 1..(Len(input) - 2) |-> SUBSCRIPT_MAP[input[i + 2]]])
        \in Candidates

C5_Witness ==
    /\ resultsReady
    /\ input = <<"a", "s", "1", "9">>
    /\ <<"A", "s", "₁", "₉">> \in Candidates

\* every character outside a-z, A-Z is its own upper and lower case
CaseOnlyInAsciiLetters(s) ==
    \A i \in 1..Len(s) :
        ~IsAlpha(s[i]) =>
            charToUpperCase(s[i]) = s[i] /\ charToLowerCase(s[i]) = s[i]

\* C6 as stated: for every input string s, getAllFormulas(s),
\* getAllFormulas(uppercase(s)) and getAllFormulas(lowercase(s)) are the same
\* list in the same order.
C6_CaseInsensitiveAnyString ==
    resultsReady =>
        /\ results = getAllFormulas(toUpperCase(input), 0)
        /\ results = getAllFormulas(toLowerCase(input), 0)

\* C6 amended: for every input string s whose characters outside a-z, A-Z
\* are left unchanged by uppercase and lowercase, getAllFormulas(s),
\* getAllFormulas(uppercase(s)) and getAllFormulas(lowercase(s)) are the same
\* list in the same order.
C6_CaseInsensitive ==
    (resultsReady /\ CaseOnlyInAsciiLetters(input)) =>
        /\ results = getAllFormulas(toUpperCase(input), 0)
        /\ results = getAllFormulas(toLowerCase(input), 0)

C6_Witness ==
    /\ resultsReady
    /\ input = <<"c", "O", "2">>
    /\ results = << <<"C", "o", "₂">>, <<"C", "O", "₂">> >>

\* 1-based start of the maximal digit run of s that contains position i
RunStart(s, i) ==
    CHOOSE j \in 1..i :
        /\ \A k \in j..i : IsDigit(s[k])
        /\ j = 1 \/ ~IsDigit(s[j - 1])

\* the maximal digit run containing position i directly follows a letter
RunFollowsLetter(s, i) ==
    RunStart(s, i) > 1 /\ IsAlpha(s[RunStart(s, i) - 1])

\* C7: every candidate has the length of the input, and the digit at each
\* input position appears in it as its subscript glyph when the maximal
\* digit run containing it directly follows a letter, and unchanged
\* otherwise; an all-digit input returns exactly [input].
C7_SubscriptAfterElement ==
    resultsReady =>
        /\ \A r \in Candidates :
             /\ Len(r) = Len(input)
             /\ \A i \in 1..Len(input) :
                  IsDigit(input[i]) =>
                    r[i] = IF RunFollowsLetter(input, i)
                           THEN SUBSCRIPT_MAP[input[i]]
                           ELSE input[i]
        /\ (\A i \in 1..Len(input) : IsDigit(input[i])) => results = <<input>>

C7_Witness ==
    /\ resultsReady
    /\ input = <<"2", "c", "2">>
    /\ results = << <<"2", "C", "₂">> >>

\* C8: in every candidate a lowercase letter occurs only as the second
\* character of a 2-letter token made of two consecutive input letters whose
\* canonical form is in the element table (so a letter followed by a digit
\* is never half of a 2-letter match); getAllFormulas('h2o') contains 'H₂O'.
C8_TwoLetterOnlyFromTable ==
    resultsReady =>
        /\ \A r \in Candidates :
             \A i \in 1..Len(r) :
               r[i] \in Lower =>
                 /\ i >= 2
                 /\ IsSymbolAt(input, i - 1)
                 /\ r[i - 1] = charToUpperCase(input[i - 1])
                 /\ r[i] = charToLowerCase(input[i])
        /\ input = <<"h", "2", "o">> => <<"H", "₂", "O">> \in Candidates

C8_Witness ==
    /\ resultsReady
    /\ input = <<"h", "2", "o">>
    /\ results = << <<"H", "₂", "O">> >>

\* first position at which two different strings of equal length differ
FirstDiff(a, b) == CHOOSE d \in 1..Len(a) :
    a[d] # b[d] /\ \A k \in 1..(d - 1) : a[k] = b[k]

\* C9: the candidates are in depth-first order with the 2-letter branch
\* first: of two candidates, the earlier one takes the 2-letter element at
\* the first token where they part, so at the first character where they
\* differ the earlier one has the lowercase second letter of the element
\* and the later one has an uppercase letter; getAllFormulas('co') is
\* ['Co', 'CO'] in that order.
C9_TwoLetterFirstOrder ==
    resultsReady =>
        /\ \A a, b \in 1..Len(results) :
             a < b =>
               /\ Len(results[a]) = Len(results[b])
               /\ results[a] # results[b]
               /\ results[a][FirstDiff(results[a], results[b])] \in Lower
               /\ results[b][FirstDiff(results[a], results[b])] \in Upper
        /\ input = <<"c", "o">> => results = << <<"C", "o">>, <<"C", "O">> >>

C9_Witness ==
    /\ resultsReady
    /\ input = <<"c", "o", "c", "o">>
    /\ results = << <<"C", "o", "C", "o">>, <<"C", "o", "C", "O">>,
                    <<"C", "O", "C", "o">>, <<"C", "O", "C", "O">> >>

\* C10: formatFormula(input) is the first candidate of getAllFormulas(input),
\* and so a member of the candidate list.
C10_FormatIsFirstCandidate ==
    (resultsReady /\ formattedReady) =>
        /\ Len(results) >= 1
        /\ formatted = results[1]
        /\ formatted \in Candidates

C10_Witness ==
    /\ resultsReady
    /\ formattedReady
    /\ input = <<"c", "o", "2">>
    /\ formatted = <<"C", "o", "₂">>
    /\ Len(results) = 2

\* number of ways to cut s from 0-based position i into tokens: a 2-letter
\* table symbol or a single letter, each with the digits that follow, or
\* one non-letter character
RECURSIVE NumTokenizations(_, _)
NumTokenizations(s, i) ==
    IF i >= Len(s) THEN 1
    ELSE IF ~IsAlpha(s[i + 1]) THEN NumTokenizations(s, i + 1)
    ELSE (IF IsSymbolAt(s, i + 1)
          THEN NumTokenizations(s, collectDigits(s, i + 2))
          ELSE 0)
         + NumTokenizations(s, collectDigits(s, i + 1))

\* C17: the candidates of getAllFormulas(input) are pairwise distinct, and
\* there are as many of them as there are tokenizations of the input.
C17_CandidatesDistinct ==
    resultsReady =>
        /\ \A a, b \in 1..Len(results) : a # b => results[a] # results[b]
        /\ Cardinality(Candidates) = NumTokenizations(input, 0)

C17_Witness ==
    /\ resultsReady
    /\ input = <<"c", "o", "s", "c">>
    /\ Len(results) = 5
    /\ Cardinality(Candidates) = 5

----------------------------------------------------------------------------
(* Properties of the page *)

\* a step in which one clipboard write settles, and that write
Settles == BagCardinality(inflight') < BagCardinality(inflight)

Settled == CHOOSE w \in BagToSet(inflight) :
               inflight' = inflight (-) SetToBag({w})

\* h with the entry of write w put in front, the last entry leaving when
\* there are HistoryCap entries already
Prepended(h, w) ==
    <<[original |-> w.original, formatted |-> w.formula]>> \o
        (IF Len(h) >= HistoryCap THEN SubSeq(h, 1, HistoryCap - 1) ELSE h)

H2O == <<"H", "₂", "O">>

\* C11 as stated: for every clipboard write of the page, a failed write
\* leaves the history unchanged and shows an error feedback, and a write
\* that succeeds records exactly one history entry (original query, copied
\* formula).
C11_EveryWriteRecorded ==
    [][Settles =>
        \/ feedback' = "error" /\ history' = history
        \/ feedback' = "success" /\ history' = Prepended(history, Settled)
      ]_vars

\* C11 amended: for every clipboard write made by copyFormula (Enter with
\* one candidate, or a digit selection), a failed write leaves the history
\* unchanged and shows an error feedback, and a write that succeeds records
\* exactly one history entry (original query, copied formula); a write made
\* by a history entry's copy button shows the feedback and never changes
\* the history.
C11_CopyFormulaWriteRecorded ==
    [][Settles =>
        IF Settled.caller = "history"
        THEN feedback' \in {"error", "success"} /\ history' = history
        ELSE \/ feedback' = "error" /\ history' = history
             \/ feedback' = "success"
                  /\ history' = Prepended(history, Settled)
      ]_vars

C11_Witness ==
    /\ history = <<[original |-> <<"h", "2", "o">>, formatted |-> H2O]>>
    /\ feedback = "success"
    /\ inflight = EmptyBag

\* C12: the history never holds more than 5 entries; it changes only by a
\* new entry put in front of the entries it had, most recent first; and a
\* copy that succeeds when it holds 5 entries puts the new entry first and
\* drops the last, oldest, one.
C12_HistoryCapped ==
    [][/\ Len(history') <= HistoryCap
       /\ history' # history =>
            /\ Len(history') >= 1
            /\ Tail(history') =
                 (IF Len(history) >= HistoryCap
                  THEN SubSeq(history, 1, HistoryCap - 1) ELSE history)
       /\ (/\ Settles
           /\ Settled.caller # "history"
           /\ feedback' = "success"
           /\ Len(history) = HistoryCap) =>
            history' = Prepended(history, Settled)
      ]_vars

C12_Witness ==
    /\ Len(history) = HistoryCap
    /\ history[1].formatted = <<"C", "O">>
    /\ history[HistoryCap].formatted = H2O

\* C13: Enter with a non-empty trimmed input and exactly one candidate
\* starts the clipboard write of that candidate and leaves the modal as it
\* was; with more than one candidate it shows the modal with all of them
\* and starts no write; Enter with an empty trimmed input starts no write.
C13_EnterDispatch ==
    [][PressEnter =>
        LET originalText == trim(textValue)
            formulas == getAllFormulas(originalText, 0)
        IN  /\ originalText = <<>> =>
                 inflight' = inflight /\ modalShown' = modalShown
            /\ (originalText # <<>> /\ Len(formulas) = 1) =>
                 /\ inflight' = inflight (+)
                      SetToBag({Write(originalText, formulas[1], "enter")})
                 /\ modalShown' = modalShown
                 /\ modalOptions' = modalOptions
            /\ (originalText # <<>> /\ Len(formulas) > 1) =>
                 /\ inflight' = inflight
                 /\ modalShown'
                 /\ modalOptions' = formulas
      ]_vars

C13_Witness ==
    /\ inflight = SetToBag({Write(<<"h", "2", "o">>, H2O, "enter")})
    /\ ~modalShown
    /\ textValue = <<" ", "h", "2", "o">>
    /\ history = <<>>

\* the candidate a keypress of key copies in this state: <<formula>>, or
\* <<>> when it copies nothing
Copied(key) ==
    IF modalShown /\ IsSelection(parseInt(key), pendingFormulas)
    THEN <<pendingFormulas[parseInt(key)[1]]>>
    ELSE <<>>

\* C14: while the modal is shown with n > 1 candidates listed, a digit key
\* k with 1 <= k <= min(n, 9) copies the k-th listed candidate, and any
\* other key copies nothing.
C14_DigitCopiesListed ==
    (modalShown /\ Len(modalOptions) > 1) =>
        \A key \in Keys :
            Copied(key) =
                IF /\ parseInt(key) # <<>>
                   /\ parseInt(key)[1] >= 1
                   /\ parseInt(key)[1] <= 9
                   /\ parseInt(key)[1] <= Len(modalOptions)
                THEN <<modalOptions[parseInt(key)[1]]>>
                ELSE <<>>

C16_OneWritePerShowing == selections <= 1

====
